---------------------------- MODULE Spec2Model ----------------------------
(***************************************************************************)
(* github-repo-info: src/main.rs.                                          *)
(*                                                                         *)
(* For each organization named on the command line the program looks the   *)
(* organization up, lists its public repositories, sorts them by push      *)
(* time, walks the first latest_n of them skipping archived ones, folds    *)
(* the others into a SumStats accumulator, prints a table and appends one  *)
(* line to out/org_stats.csv.                                              *)
(*                                                                         *)
(* Text is modelled as sequences of one-character strings, so that column  *)
(* counts and substrings are computed, not assumed.  A u32 is modelled as  *)
(* a pair <<hi, lo>> of 16-bit halves, which keeps the full 32-bit width   *)
(* inside the integer range of the model checker.                          *)
(***************************************************************************)
EXTENDS Integers, Sequences, FiniteSets, TLC

(***************************************************************************)
(* Bounds of the model.                                                    *)
(***************************************************************************)
\* repositories the remote system holds, summed over the organizations of a run
MaxRepos == 4
\* largest explicit --latest-n (the default usize::MAX is always included)
MaxLimit == 2
\* repositories per result page of the remote listing (the service's default
\* page size, scaled down)
PerPage == 3

(***************************************************************************)
(* Text literals.                                                          *)
(***************************************************************************)
CsvHeader ==
    <<"r", "e", "a", "l", "_", "o", "r", "g", "_", "n", "a", "m", "e", ",", "o",
    "r", "g", "_", "c", "r", "e", "a", "t", "e", "d", "_", "a", "t", ",", "s",
    "t", "a", "r", "s", ",", "f", "o", "r", "k", "s", ",", "f", "o", "l", "l",
    "o", "w", "e", "r", "s", ",", "u", "p", "d", "a", "t", "e", "d", "_", "a",
    "t", ",", "p", "u", "s", "h", "e", "d", "_", "a", "t", ",", "o", "p", "e",
    "n", "_", "i", "s", "s", "u", "e", "s", "_", "c", "o", "u", "n", "t", ",",
    "s", "i", "z", "e", "\n">>
LblRepository ==
    <<"R", "e", "p", "o", "s", "i", "t", "o", "r", "y">>
LblStars ==
    <<"S", "t", "a", "r", "s">>
LblForks ==
    <<"F", "o", "r", "k", "s">>
LblLicense ==
    <<"L", "i", "c", "e", "n", "s", "e">>
LblFollowers ==
    <<"F", "o", "l", "l", "o", "w", "e", "r", "s">>
LblUpdatedAt ==
    <<"U", "p", "d", "a", "t", "e", "d", " ", "a", "t">>
LblPushedAt ==
    <<"P", "u", "s", "h", "e", "d", " ", "a", "t">>
LblOpenIssues ==
    <<"O", "p", "e", "n", " ", "i", "s", "s", "u", "e", "s">>
LblSize ==
    <<"S", "i", "z", "e">>
LblCreated ==
    <<"C", "r", "e", "a", "t", "e", "d">>
StrSum ==
    <<"S", "u", "m", ":", " ">>
StrLatest ==
    <<"L", "a", "t", "e", "s", "t", ":", " ">>
StrOrganization ==
    <<"O", "r", "g", "a", "n", "i", "z", "a", "t", "i", "o", "n", " ">>
StrNotFound ==
    <<" ", "n", "o", "t", " ", "f", "o", "u", "n", "d", " ">>
StrMidnightUtc ==
    <<" ", "0", "0", ":", "0", "0", ":", "0", "0", " ", "U", "T", "C">>
StrAcme ==
    <<"a", "c", "m", "e">>
StrDoesNotExist ==
    <<"d", "o", "e", "s", "n", "o", "t", "e", "x", "i", "s", "t">>
StrAcmeInc ==
    <<"A", "c", "m", "e", ",", " ", "I", "n", "c", ".">>
StrMIT ==
    <<"M", "I", "T", " ", "L", "i", "c", "e", "n", "s", "e">>
StrErr ==
    <<"G", "i", "t", "H", "u", "b", ":", " ", "N", "o", "t", " ", "F", "o", "u",
    "n", "d">>

(***************************************************************************)
(* Option<T>: None is the empty sequence, Some(x) the one-element one.     *)
(***************************************************************************)
None == <<>>
Some(x) == <<x>>
UnwrapOr(o, d) == IF o = None THEN d ELSE o[1]

Range(s) == {s[i] : i \in 1..Len(s)}
Min(a, b) == IF a <= b THEN a ELSE b

(***************************************************************************)
(* u32 as <<hi, lo>>, value hi * 65536 + lo.                               *)
(***************************************************************************)
Half == 65536
U(n) == <<n \div Half, n % Half>>
U32Max == <<Half - 1, Half - 1>>

\* the mathematical sum of two u32, hi half not reduced
AddWide(a, b) ==
    LET lo == a[2] + b[2]
    IN  <<a[1] + b[1] + (lo \div Half), lo % Half>>
\* the sum does not fit in 32 bits
AddOverflows(a, b) == AddWide(a, b)[1] >= Half
\* the sum reduced modulo 2^32
WrappingAdd(a, b) == <<AddWide(a, b)[1] % Half, AddWide(a, b)[2]>>

(***************************************************************************)
(* to_string / Display.                                                    *)
(***************************************************************************)
Digit(d) == <<"0", "1", "2", "3", "4", "5", "6", "7", "8", "9">>[d + 1]

RECURSIVE NatToString(_)
NatToString(n) ==
    IF n < 10 THEN <<Digit(n)>>
    ELSE Append(NatToString(n \div 10), Digit(n % 10))

IntToString(n) == IF n < 0 THEN <<"-">> \o NatToString(0 - n) ELSE NatToString(n)

\* u32::to_string: long division of <<hi, lo>> by ten
RECURSIVE U32ToString(_)
U32ToString(v) ==
    LET r == v[1] % 10
        t == r * Half + v[2]
        q == <<v[1] \div 10, t \div 10>>
    IN  IF q = <<0, 0>> THEN <<Digit(t % 10)>>
        ELSE Append(U32ToString(q), Digit(t % 10))

Pad(n, width) ==
    LET s == NatToString(n)
    IN  [i \in 1..(IF Len(s) < width THEN width - Len(s) ELSE 0) |-> "0"] \o s

(***************************************************************************)
(* DateTime<Utc>: <<year, month, day>> at midnight, ordered as a date.     *)
(***************************************************************************)
\* year of NaiveDateTime::MIN
MinYear == -262144
MinTimestamp == <<MinYear, 1, 1>>

TsLess(a, b) ==
    \/ a[1] < b[1]
    \/ a[1] = b[1] /\ a[2] < b[2]
    \/ a[1] = b[1] /\ a[2] = b[2] /\ a[3] < b[3]

\* Ord::max(self, other)
TsMax_LastWins(a, b) == b
TsMax(a, b) == IF TsLess(b, a) THEN a ELSE b

YearToString(y) == IF y < 0 THEN <<"-">> \o Pad(0 - y, 4) ELSE Pad(y, 4)

\* Display for DateTime<Utc>
TsToString(t) ==
    YearToString(t[1]) \o <<"-">> \o Pad(t[2], 2) \o <<"-">> \o Pad(t[3], 2)
        \o StrMidnightUtc

(***************************************************************************)
(* The repositories and organizations of the remote system.                *)
(***************************************************************************)
Repo(name, stars, forks, watchers, license, upd, pushed, issues, size, cr, ar) ==
    [name |-> name, stargazers_count |-> stars, forks_count |-> forks,
     watchers_count |-> watchers, license |-> license, updated_at |-> upd,
     pushed_at |-> pushed, open_issues_count |-> issues, size |-> size,
     created_at |-> cr, archived |-> ar]

R1 == Repo(<<"r", "1">>, U(10), U(1), U(10), Some(StrMIT), <<2023, 1, 2>>,
           <<2023, 1, 1>>, U(3), U(100), <<2019, 5, 1>>, FALSE)
R2 == Repo(<<"r", "2">>, U(5), U(2), U(5), None, <<2023, 6, 1>>,
           <<2023, 6, 1>>, U(0), U(70000), <<2020, 2, 29>>, FALSE)
R3 == Repo(<<"r", "3">>, U(20), U(0), U(21), Some(StrMIT), <<2023, 7, 9>>,
           <<2022, 1, 1>>, U(1), U(8), <<2015, 11, 30>>, FALSE)
R4 == Repo(<<"r", "4">>, U32Max, U(4), U(9), None, <<2023, 1, 1>>,
           <<2023, 1, 1>>, U(2), U32Max, <<2021, 1, 1>>, FALSE)
R5 == Repo(<<"r", "5">>, U(7), U(7), U(7), Some(StrMIT), <<2023, 12, 24>>,
           <<2023, 12, 24>>, U(9), U(12), <<2012, 8, 15>>, TRUE)

\* the repositories the remote system can hold, in the order it lists them
RepoPool == <<R1, R2, R3, R4, R5>>

\* request names given on the command line
OrgNames == {StrAcme, StrDoesNotExist}

\* what the organization lookup can return: name absent or present
OrgInfos ==
    {[name |-> None, created_at |-> <<2011, 3, 4>>],
     [name |-> Some(StrAcmeInc), created_at |-> <<2008, 2, 8>>]}

Reverse(s) == [i \in 1..Len(s) |-> s[Len(s) + 1 - i]]

\* the repositories of RepoPool at the positions I, in the order of RepoPool
Pick(I) ==
    LET kth(k) == CHOOSE i \in I : Cardinality({j \in I : j < i}) = k - 1
    IN  [k \in 1..Cardinality(I) |-> RepoPool[kth(k)]]

\* what an organization can hold: at most n repositories of RepoPool, listed
\* in the order of RepoPool or in the reverse order
Listings(n) ==
    UNION {{Pick(I), Reverse(Pick(I))} :
              I \in {J \in SUBSET (1..Len(RepoPool)) : Cardinality(J) <= n}}

\* all sequences without repetition over S
RECURSIVE Arrangements(_, _)
Arrangements(S, n) ==
    IF n = 0 THEN {<<>>}
    ELSE LET shorter == Arrangements(S, n - 1)
         IN  shorter \cup
             {Append(p[1], p[2]) :
                 p \in {q \in shorter \X S : q[2] \notin Range(q[1])}}

\* the lists of organizations a run is given: some of OrgNames, each once
OrgLists == Arrangements(OrgNames, Cardinality(OrgNames)) \ {<<>>}

(***************************************************************************)
(* Cli                                                                     *)
(***************************************************************************)
\* default_value_t = usize::MAX, held as the largest integer of the checker
UsizeMax == 2147483647
Limits == (1..MaxLimit) \cup {UsizeMax}

(***************************************************************************)
(* SumStats                                                                *)
(***************************************************************************)
SumStatsNew ==
    [stars |-> U(0), forks |-> U(0), followers |-> U(0),
     updated_at |-> MinTimestamp, pushed_at |-> MinTimestamp,
     open_issues_count |-> U(0), size |-> U(0)]

\* some += of SumStats::update leaves the range of u32: the run then panics
\* (a build that checks overflow) or goes on with the sum wrapped (one that
\* does not)
UpdateOverflows(s, r) ==
    \/ AddOverflows(s.stars, r.stargazers_count)
    \/ AddOverflows(s.forks, r.forks_count)
    \/ AddOverflows(s.followers, r.watchers_count)
    \/ AddOverflows(s.open_issues_count, r.open_issues_count)
    \/ AddOverflows(s.size, r.size)

\* SumStats::update, with += as it is when overflow is not checked
Update(s, r) ==
    [stars |-> WrappingAdd(s.stars, r.stargazers_count),
     forks |-> WrappingAdd(s.forks, r.forks_count),
     followers |-> WrappingAdd(s.followers, r.watchers_count),
     updated_at |-> TsMax(s.updated_at, r.updated_at),
     pushed_at |-> TsMax(s.pushed_at, r.pushed_at),
     open_issues_count |-> WrappingAdd(s.open_issues_count, r.open_issues_count),
     size |-> WrappingAdd(s.size, r.size)]

(***************************************************************************)
(* org_repos.sort_by(|a, b| b.pushed_at.cmp(&a.pushed_at)): a stable sort, *)
(* most recently pushed first.                                             *)
(***************************************************************************)
\* the comparator answers Less: a goes strictly before b
GoesBefore(a, b) == TsLess(b.pushed_at, a.pushed_at)

\* x placed after every element it does not go strictly before
InsertStable(sorted, x) ==
    LET before == {i \in 1..Len(sorted) : GoesBefore(x, sorted[i])}
        at == IF before = {} THEN Len(sorted) + 1
              ELSE CHOOSE i \in before : \A j \in before : i <= j
    IN  SubSeq(sorted, 1, at - 1) \o <<x>> \o SubSeq(sorted, at, Len(sorted))

RECURSIVE SortFrom(_, _)
SortFrom(sorted, rest) ==
    IF rest = <<>> THEN sorted
    ELSE SortFrom(InsertStable(sorted, Head(rest)), Tail(rest))

\* ties come out in reverse of their order in the input
SortByPushedDesc_Unstable(s) ==
    LET n == Len(s)
    IN  SortFrom(<<>>, [i \in 1..n |-> s[n + 1 - i]])
SortByPushedDesc(s) == SortFrom(<<>>, s)

(***************************************************************************)
(* list_repos().repo_type(Public).send().await.items: one request, whose   *)
(* answer is the first page of the collection.                             *)
(***************************************************************************)
FirstPage(held) == SubSeq(held, 1, Min(PerPage, Len(held)))

(***************************************************************************)
(* The table and the CSV line.                                             *)
(***************************************************************************)
EmptyTable == [header |-> <<>>, rows |-> <<>>]

LabelRow ==
    <<LblRepository, LblStars, LblForks, LblLicense, LblFollowers,
      LblUpdatedAt, LblPushedAt, LblOpenIssues, LblSize, LblCreated>>

RepoRow(r) ==
    <<r.name, U32ToString(r.stargazers_count), U32ToString(r.forks_count),
      UnwrapOr(r.license, <<>>), U32ToString(r.watchers_count),
      TsToString(r.updated_at), TsToString(r.pushed_at),
      U32ToString(r.open_issues_count), U32ToString(r.size),
      IntToString(r.created_at[1])>>

SummaryHeader(real_org_name, org_created_at, s) ==
    <<real_org_name \o <<" ", "[">> \o IntToString(org_created_at) \o <<"]">>,
      StrSum \o U32ToString(s.stars),
      StrSum \o U32ToString(s.forks),
      <<>>,
      StrSum \o U32ToString(s.followers),
      StrLatest \o TsToString(s.updated_at),
      StrLatest \o TsToString(s.pushed_at),
      StrSum \o U32ToString(s.open_issues_count),
      StrSum \o U32ToString(s.size)>>

CsvRow(real_org_name, org_created_at, s) ==
    real_org_name \o <<",">> \o IntToString(org_created_at) \o <<",">>
        \o U32ToString(s.stars) \o <<",">> \o U32ToString(s.forks) \o <<",">>
        \o U32ToString(s.followers) \o <<",">> \o TsToString(s.updated_at)
        \o <<",">> \o TsToString(s.pushed_at) \o <<",">>
        \o U32ToString(s.open_issues_count) \o <<",">> \o U32ToString(s.size)
        \o <<"\n">>

NotFoundLine(org_name, e) == StrOrganization \o org_name \o StrNotFound \o e

\* write_all: the bytes go after what the file holds
WriteAll_Truncating(file, bytes) == bytes
WriteAll(file, bytes) == file \o bytes

TableOut(t) == [kind |-> "table", text |-> <<>>, table |-> t]
LineOut(s) == [kind |-> "line", text |-> s, table |-> EmptyTable]

(***************************************************************************)
(* State.                                                                  *)
(***************************************************************************)
VARIABLES
    orgs,             \* args.orgs
    latest_n,         \* args.latest_n
     \* whether the build checks integer overflow
    pc,               \* where main is
    idx,              \* position of the for loop in orgs
    out_file,         \* contents of out/org_stats.csv
    stdout,           \* what println! has printed
    panic,            \* message of the panic that ended the run, or ""
    org_info,         \* result of org.get()
    held,             \* the repositories the remote system holds for the organization
    org_repos,        \* the vector being iterated
    taken,            \* items the take(latest_n) iterator has yielded
    sum_stats,        \* the accumulator
    table,            \* the table being built
    folded,           \* the repositories passed to SumStats::update for the organization
    fetch_log,        \* per organization reached: how its remote calls ended
    quota             \* repositories the remote system has been given so far

vars == <<orgs, latest_n, pc, idx, out_file, stdout, panic,
          org_info, held, org_repos, taken, sum_stats, table, folded,
          fetch_log, quota>>

NoInfo == [name |-> None, created_at |-> MinTimestamp]

Init ==
    /\ orgs \in OrgLists
    /\ latest_n \in Limits
    /\ pc = "create"
    /\ idx = 1
    /\ out_file = <<>>
    /\ stdout = <<>>
    /\ panic = ""
    /\ org_info = NoInfo
    /\ held = <<>>
    /\ org_repos = <<>>
    /\ taken = 0
    /\ sum_stats = SumStatsNew
    /\ table = EmptyTable
    /\ folded = <<>>
    /\ fetch_log = <<>>
    /\ quota = 0

Panic(msg) ==
    /\ pc' = "panicked"
    /\ panic' = msg

RealOrgName == UnwrapOr(org_info.name, orgs[idx])
OrgCreatedAt == org_info.created_at[1]

\* ghost record of how the remote calls for orgs[idx] ended
LogEntry(result) ==
    [org |-> orgs[idx], result |-> result,
     real_org_name |-> IF result = "ok" THEN RealOrgName ELSE orgs[idx]]

\* File::create("out/org_stats.csv")
CreateFile ==
    /\ pc = "create"
    /\ pc' = "header"
    /\ out_file' = <<>>
    /\ UNCHANGED <<orgs, latest_n, idx, stdout, panic, org_info,
                   held, org_repos, taken, sum_stats, table, folded, fetch_log,
                   quota>>

CreateFileErr ==
    /\ pc = "create"
    /\ Panic("open csv file ok")
    /\ UNCHANGED <<orgs, latest_n, idx, out_file, stdout,
                   org_info, held, org_repos, taken, sum_stats, table, folded,
                   fetch_log, quota>>

WriteHeader ==
    /\ pc = "header"
    /\ pc' = "orgs"
    /\ out_file' = WriteAll(out_file, CsvHeader)
    /\ UNCHANGED <<orgs, latest_n, idx, stdout, panic, org_info,
                   held, org_repos, taken, sum_stats, table, folded, fetch_log,
                   quota>>

WriteHeaderErr ==
    /\ pc = "header"
    /\ Panic("csv file write ok")
    /\ UNCHANGED <<orgs, latest_n, idx, out_file, stdout,
                   org_info, held, org_repos, taken, sum_stats, table, folded,
                   fetch_log, quota>>

\* org.get().await is Ok(org_info)
OrgLookupOk ==
    /\ pc = "orgs"
    /\ idx <= Len(orgs)
    /\ \E info \in OrgInfos : org_info' = info
    /\ pc' = "list"
    /\ UNCHANGED <<orgs, latest_n, idx, out_file, stdout, panic,
                   held, org_repos, taken, sum_stats, table, folded, fetch_log,
                   quota>>

\* org.get().await is Err(e)
OrgLookupErr ==
    /\ pc = "orgs"
    /\ idx <= Len(orgs)
    /\ stdout' = Append(stdout, LineOut(NotFoundLine(orgs[idx], StrErr)))
    /\ fetch_log' = Append(fetch_log, LogEntry("lookup_err"))
    /\ idx' = idx + 1
    /\ UNCHANGED <<orgs, latest_n, pc, out_file, panic, org_info,
                   held, org_repos, taken, sum_stats, table, folded, quota>>

\* the listing answers; the vector is sorted, the accumulator and table made
ListReposInto(stats) ==
    /\ pc = "list"
    /\ \E h \in Listings(MaxRepos - quota) :
        /\ held' = h
        /\ quota' = quota + Len(h)
        /\ org_repos' = SortByPushedDesc(FirstPage(h))
    /\ sum_stats' = stats
    /\ table' = [header |-> <<>>, rows |-> <<LabelRow>>]
    /\ taken' = 0
    /\ folded' = <<>>
    /\ fetch_log' = Append(fetch_log, LogEntry("ok"))
    /\ pc' = "repos"
    /\ UNCHANGED <<orgs, latest_n, idx, out_file, stdout, panic,
                   org_info>>

\* the accumulator of the organization before is kept
ListReposOk_Carry == ListReposInto(sum_stats)
ListReposOk == ListReposInto(SumStatsNew)

\* the listing fails: .expect("find repos")
ListReposErr ==
    /\ pc = "list"
    /\ Panic("find repos")
    /\ fetch_log' = Append(fetch_log, LogEntry("list_err"))
    /\ UNCHANGED <<orgs, latest_n, idx, out_file, stdout,
                   org_info, held, org_repos, taken, sum_stats, table, folded,
                   quota>>

\* an answer lacks a field the code unwraps (pushed_at, archived, a count,
\* created_at): the unwrap panics before anything is printed or written
MissingField ==
    /\ pc = "list"
    /\ Panic("called Option::unwrap() on a None value")
    /\ fetch_log' = Append(fetch_log, LogEntry("malformed"))
    /\ UNCHANGED <<orgs, latest_n, idx, out_file, stdout,
                   org_info, held, org_repos, taken, sum_stats, table, folded,
                   quota>>

\* if repo.archived.unwrap() { continue; }
Skips_Never(repo) == FALSE
Skips(repo) == repo.archived

\* one turn of: for repo in org_repos.into_iter().take(args.latest_n)
NextRepo ==
    /\ pc = "repos"
    /\ taken < latest_n
    /\ taken < Len(org_repos)
    /\ taken' = taken + 1
    /\ LET repo == org_repos[taken + 1]
       IN  IF Skips(repo)
           THEN UNCHANGED <<pc, panic, sum_stats, table, folded>>
           ELSE /\ table' = [table EXCEPT !.rows = Append(@, RepoRow(repo))]
                /\ folded' = Append(folded, repo)
                /\ \/ /\ UpdateOverflows(sum_stats, repo)
                      /\ Panic("attempt to add with overflow")
                      /\ UNCHANGED sum_stats
                   \/ /\ sum_stats' = Update(sum_stats, repo)
                      /\ UNCHANGED <<pc, panic>>
    /\ UNCHANGED <<orgs, latest_n, idx, out_file, stdout,
                   org_info, held, org_repos, fetch_log, quota>>

\* the iterator is exhausted: set_header and println!("{table}")
PrintTable ==
    /\ pc = "repos"
    /\ ~(taken < latest_n /\ taken < Len(org_repos))
    /\ table' = [table EXCEPT
                   !.header = SummaryHeader(RealOrgName, OrgCreatedAt, sum_stats)]
    /\ stdout' = Append(stdout, TableOut(table'))
    /\ pc' = "write"
    /\ UNCHANGED <<orgs, latest_n, idx, out_file, panic,
                   org_info, held, org_repos, taken, sum_stats, folded,
                   fetch_log, quota>>

WriteRow ==
    /\ pc = "write"
    /\ out_file' = WriteAll(out_file, CsvRow(RealOrgName, OrgCreatedAt, sum_stats))
    /\ idx' = idx + 1
    /\ pc' = "orgs"
    /\ UNCHANGED <<orgs, latest_n, stdout, panic, org_info,
                   held, org_repos, taken, sum_stats, table, folded, fetch_log,
                   quota>>

WriteRowErr ==
    /\ pc = "write"
    /\ Panic("write csv row ok")
    /\ UNCHANGED <<orgs, latest_n, idx, out_file, stdout,
                   org_info, held, org_repos, taken, sum_stats, table, folded,
                   fetch_log, quota>>

\* Ok(())
Finish ==
    /\ pc = "orgs"
    /\ idx > Len(orgs)
    /\ pc' = "done"
    /\ UNCHANGED <<orgs, latest_n, idx, out_file, stdout, panic,
                   org_info, held, org_repos, taken, sum_stats, table, folded,
                   fetch_log, quota>>

Next ==
    \/ CreateFile
    \/ CreateFileErr
    \/ WriteHeader
    \/ WriteHeaderErr
    \/ OrgLookupOk
    \/ OrgLookupErr
    \/ ListReposOk
    \/ ListReposErr
    \/ MissingField
    \/ NextRepo
    \/ PrintTable
    \/ WriteRow
    \/ WriteRowErr
    \/ Finish

Spec == Init /\ [][Next]_vars

(***************************************************************************)
(* Reading the outputs back.                                               *)
(***************************************************************************)
IsPrefix(a, b) == Len(a) <= Len(b) /\ SubSeq(b, 1, Len(a)) = a

Contains(text, sub) ==
    \E i \in 0..(Len(text) - Len(sub)) : SubSeq(text, i + 1, i + Len(sub)) = sub

NewlineAt(f) == {i \in 1..Len(f) : f[i] = "\n"}
LineCount(f) == Cardinality(NewlineAt(f))
LineEnd(f, k) ==
    CHOOSE i \in NewlineAt(f) : Cardinality({j \in NewlineAt(f) : j <= i}) = k
\* the k-th line of f, without its newline
Line(f, k) ==
    SubSeq(f, IF k = 1 THEN 1 ELSE LineEnd(f, k - 1) + 1, LineEnd(f, k) - 1)
Columns(line) == Cardinality({i \in 1..Len(line) : line[i] = ","}) + 1

DataRows(t) == IF t.rows = <<>> THEN <<>> ELSE Tail(t.rows)
RepoNamed(name) == CHOOSE r \in Range(RepoPool) : r.name = name
RowRepos(t) == [i \in 1..Len(DataRows(t)) |-> RepoNamed(DataRows(t)[i][1])]
Position(s, x) == CHOOSE i \in 1..Len(s) : s[i] = x

NonArchived(s) == {i \in 1..Len(s) : ~s[i].archived}
OkEntries == SelectSeq(fetch_log, LAMBDA e : e.result = "ok")
Building == pc \in {"repos", "write"}

RECURSIVE SumInts(_)
SumInts(s) == IF s = <<>> THEN 0 ELSE Head(s) + SumInts(Tail(s))
\* the arithmetic sum of a sequence of u32, as <<hi, lo>> with hi unbounded
ArithmeticSum(vals) ==
    LET lo == SumInts([i \in 1..Len(vals) |-> vals[i][2]])
        hi == SumInts([i \in 1..Len(vals) |-> vals[i][1]])
    IN  <<hi + (lo \div Half), lo % Half>>
Field(s, f) == [i \in 1..Len(s) |-> s[i][f]]

LatestOf(ts) == CHOOSE t \in Range(ts) : \A u \in Range(ts) : ~TsLess(t, u)

RECURSIVE FoldFrom(_, _)
FoldFrom(s, repos) ==
    IF repos = <<>> THEN s ELSE FoldFrom(Update(s, Head(repos)), Tail(repos))
RECURSIVE OverflowsFrom(_, _)
OverflowsFrom(s, repos) ==
    /\ repos # <<>>
    /\ \/ UpdateOverflows(s, Head(repos))
       \/ OverflowsFrom(Update(s, Head(repos)), Tail(repos))
Reorderings(s) == {[i \in 1..Len(s) |-> s[f[i]]] : f \in Permutations(1..Len(s))}

StrOverflow == "attempt to add with overflow"

(***************************************************************************)
(* Claims.                                                                 *)
(***************************************************************************)

\* C1: the number of repositories reported for an organization equals
\* min(limit, number of non-archived repositories fetched): archived
\* repositories use up none of the limit.
C1_ReportedCountIsMinOfLimit ==
    pc = "write" =>
        Len(DataRows(table)) = Min(latest_n, Cardinality(NonArchived(org_repos)))

\* C2: after folding the selected repositories every total equals the
\* arithmetic sum of the folded values, for all u32 values, with no
\* wraparound and no abort.
C2_SumsAreArithmetic ==
    /\ panic # StrOverflow
    /\ (Building /\ folded # <<>>) =>
        /\ sum_stats.stars = ArithmeticSum(Field(folded, "stargazers_count"))
        /\ sum_stats.forks = ArithmeticSum(Field(folded, "forks_count"))
        /\ sum_stats.followers = ArithmeticSum(Field(folded, "watchers_count"))
        /\ sum_stats.open_issues_count
               = ArithmeticSum(Field(folded, "open_issues_count"))
        /\ sum_stats.size = ArithmeticSum(Field(folded, "size"))

\* C3: when the lookup or the listing fails for an organization, a line
\* containing its request name is printed, no CSV line is written for it,
\* the run does not end at that organization and every later organization
\* is processed.
C3_FetchFailureIsIsolated ==
    /\ LineCount(out_file) <= 1 + Len(OkEntries)
    /\ \A i \in 1..Len(fetch_log) :
        fetch_log[i].result \in {"lookup_err", "list_err"} =>
            /\ \E k \in 1..Len(stdout) :
                /\ stdout[k].kind = "line"
                /\ Contains(stdout[k].text, fetch_log[i].org)
            /\ ~(pc = "panicked" /\ idx = i)
            /\ pc = "done" => Len(fetch_log) = Len(orgs)

CsvIsHeaderThenRows ==
    /\ IsPrefix(CsvHeader, out_file)
    /\ out_file[Len(out_file)] = "\n"
    /\ LineCount(out_file) = 1 + Len(OkEntries)
    /\ \A k \in 1..Len(OkEntries) :
        /\ IsPrefix(OkEntries[k].real_org_name \o <<",">>, Line(out_file, k + 1))
        /\ Line(out_file, k + 1) \o <<"\n">> # CsvHeader

\* C4: when a run completes the CSV file is the header line once, first,
\* then one line per organization whose fetch succeeded, in the order of the
\* input list; and every step of the run only appends to the file.
C4_CsvHeaderThenRowsAppendOnly ==
    /\ [](pc = "done" => CsvIsHeaderThenRows)
    /\ [][IsPrefix(out_file, out_file')]_vars

\* C4 witness: a completed run in which two organizations were fetched.
C4_Witness ==
    /\ pc = "done"
    /\ Len(OkEntries) = 2
    /\ LineCount(out_file) = 3

\* C5: the repositories filtered, sorted and aggregated are all the
\* repositories the remote system holds for the organization, however many
\* pages it splits them into.
C5_AllHeldRepositoriesFetched ==
    Building => Range(org_repos) = Range(held)

\* C6: every line of the CSV file has exactly 9 comma-separated columns.
C6_EveryCsvLineHasNineColumns ==
    \A k \in 1..LineCount(out_file) : Columns(Line(out_file, k)) = 9

\* C7: no archived repository is a data row of the table, printed or being
\* built, and none is passed to SumStats::update.
C7_ArchivedNeverReported ==
    /\ \A i \in 1..Len(DataRows(table)) : ~RowRepos(table)[i].archived
    /\ \A k \in 1..Len(stdout) :
        \A i \in 1..Len(DataRows(stdout[k].table)) :
            ~RowRepos(stdout[k].table)[i].archived
    /\ \A i \in 1..Len(folded) : ~folded[i].archived
    /\ Building => sum_stats = FoldFrom(SumStatsNew,
                        SelectSeq(folded, LAMBDA r : ~r.archived))

\* C7 witness: an archived repository was taken from the iterator and the
\* table of the organization, which has a data row, is printed.
C7_Witness ==
    /\ pc = "write"
    /\ \E i \in 1..taken : org_repos[i].archived
    /\ Len(DataRows(table)) >= 1

\* C8: the data rows of the table are in descending order of pushed_at, and
\* rows with equal pushed_at are in the order of the fetch result; for the
\* three repositories (10, 2023-01-01), (5, 2023-06-01), (20, 2022-01-01)
\* and limit 2 the rows are 2023-06-01 then 2023-01-01 and the stars total
\* is 15.
C8_RowsSortedByPushedDescStable ==
    LET rows == RowRepos(table)
        fetched == FirstPage(held)
    IN  /\ \A i \in 1..(Len(rows) - 1) :
            ~TsLess(rows[i].pushed_at, rows[i + 1].pushed_at)
        /\ \A i, j \in 1..Len(rows) :
            (i < j /\ rows[i].pushed_at = rows[j].pushed_at) =>
                Position(fetched, rows[i]) < Position(fetched, rows[j])
        /\ (pc = "write" /\ Range(org_repos) = {R1, R2, R3} /\ latest_n = 2) =>
            /\ Len(DataRows(table)) = 2
            /\ DataRows(table)[1][7]
                   = <<"2", "0", "2", "3", "-", "0", "6", "-", "0", "1">>
                        \o StrMidnightUtc
            /\ DataRows(table)[2][7]
                   = <<"2", "0", "2", "3", "-", "0", "1", "-", "0", "1">>
                        \o StrMidnightUtc
            /\ sum_stats.stars = U(15)
            /\ table.header[2] = StrSum \o <<"1", "5">>

\* C8 witness: the table of the three-repository scenario with limit 2 is
\* printed.
C8_Witness ==
    /\ pc = "write"
    /\ Range(org_repos) = {R1, R2, R3}
    /\ latest_n = 2

\* C8 witness of the tie: two reported rows have the same pushed_at.
C8_TieReached ==
    /\ pc = "write"
    /\ \E i, j \in 1..Len(folded) :
        i < j /\ folded[i].pushed_at = folded[j].pushed_at

\* C9: after folding a non-empty sequence, updated_at and pushed_at are the
\* latest of the folded records (never the initial minimum), and folding the
\* same records in any other order gives the same statistics in every
\* field; a fold that aborts on overflow aborts in every order.
C9_MaximaAndOrderIndependence ==
    /\ (Building /\ folded # <<>>) =>
        /\ sum_stats.updated_at = LatestOf(Field(folded, "updated_at"))
        /\ sum_stats.pushed_at = LatestOf(Field(folded, "pushed_at"))
        /\ sum_stats.updated_at # MinTimestamp
        /\ sum_stats.pushed_at # MinTimestamp
        /\ \A p \in Reorderings(folded) : FoldFrom(SumStatsNew, p) = sum_stats
    /\ panic = StrOverflow =>
        \A p \in Reorderings(folded) : OverflowsFrom(SumStatsNew, p)

\* C9 witness: three records with different update times were folded and
\* the first was not the latest.
C9_Witness ==
    /\ pc = "write"
    /\ Len(folded) = 3
    /\ TsLess(folded[3].pushed_at, folded[1].pushed_at)
    /\ TsLess(folded[1].updated_at, folded[3].updated_at)

\* C10: the aggregate values printed and written for an organization are
\* those of a fold of its own selected repositories from a fresh
\* accumulator, whatever organizations were processed before it.
C10_AggregatesOfOwnRepositoriesOnly ==
    LET own == FoldFrom(SumStatsNew, folded)
    IN  /\ pc = "write" =>
            /\ table.header = SummaryHeader(RealOrgName, OrgCreatedAt, own)
            /\ stdout[Len(stdout)] = TableOut(table)
        /\ (pc \in {"orgs", "done"} /\ fetch_log # <<>>
                /\ fetch_log[Len(fetch_log)].result = "ok") =>
            Line(out_file, LineCount(out_file)) \o <<"\n">>
                = CsvRow(fetch_log[Len(fetch_log)].real_org_name,
                         org_info.created_at[1], own)

\* C10 witness: the second organization of a run is written after a first
\* one that reported repositories with non-zero totals.
C10_Witness ==
    /\ pc \in {"orgs", "done"}
    /\ Len(OkEntries) = 2
    /\ folded # <<>>
    /\ stdout[1].kind = "table"
    /\ Len(DataRows(stdout[1].table)) >= 1

=============================================================================
